---- MODULE Spec2Model ----
(***************************************************************************)
(* Markly smart attendance: the session / attendance state machine and its *)
(* rotating-token check-in protocol.                                       *)
(*                                                                         *)
(* The persistent store is the Postgres database behind Supabase: the      *)
(* tables `sessions`, `attendance` and `enrollments`, the BEFORE INSERT OR *)
(* UPDATE trigger validate_attendance_update_improved and the row-level    *)
(* policies on them.  Every `await` of a handler is one atomic step, so    *)
(* two handlers interleave exactly where the code suspends.                *)
(*                                                                         *)
(* Time is in seconds; a calendar day is DayLen seconds of the teacher's   *)
(* local clock.  A qr_secret is only ever compared with the secret of a    *)
(* token naming the same session, so the secrets of one session are        *)
(* numbered in the order they are generated:                               *)
(* Math.random().toString(36).substring(2, 15) is modelled as a value the  *)
(* session never had before.                                               *)
(***************************************************************************)
EXTENDS Integers, Sequences, FiniteSets, TLC

\* ------------------------------------------------------------- bounds
\* the clock advances in steps of TickStep seconds
TickStep == 60
\* the clock runs at most MaxOffset seconds into a day
MaxOffset == 120
\* the last day the clock reaches (days are numbered from 0)
MaxDay == 1
\* the most rows the sessions table holds
MaxSessions == 3
\* the most qr_secret values one session is given
MaxSecret == 2
MaxRuns == 2
\* a token is minted at most MaxMintOffset seconds after the clock's value
MaxMintOffset == 11
\* the step of the finer clock of the session view's scenario
ViewStep == 15

\* --------------------------------------------------- program constants
\* a session window: 90 seconds
SessionWindow == 90
\* the one-shot extension: 30 seconds
ExtendDelta == 30
SweepLookback == 1800
\* the slot of the client mint and the slot of the server mint, in seconds
ClientSlot == 10
ServerSlot == 300
AllLookback == 86400
\* the length of the [todayStart, todayEnd) window of createSession
DayLen == 86400

Teachers == {"t1"}
Students == {"s1", "s2"}
Classes == {"c1"}
Statuses == {"present", "pending", "absent", "rejected"}

\* JSON.stringify(tokenData): the keys with their values, in the order of the
\* object literal; btoa is one-to-one on that text
\* generateQRToken: { sessionId, slotTime, secret }
generateQRToken(sessionId, qrSecret, t) ==
  <<<<"sessionId", sessionId>>, <<"slotTime", t \div ClientSlot>>, <<"secret", qrSecret>>>>

\* secure-qr-token: { sessionId, secret, timeSlot, timestamp }
SecureQrToken(sessionId, qrSecret, t) ==
  <<<<"sessionId", sessionId>>, <<"secret", qrSecret>>,
    <<"timeSlot", t \div ServerSlot>>, <<"timestamp", t>>>>

\* JSON.parse(atob(token)): the object of the keys of the text
DecodeToken(text) ==
  [k \in {text[i][1] : i \in DOMAIN text} |->
      (CHOOSE p \in {text[i] : i \in DOMAIN text} : p[1] = k)[2]]

\* the rotation slot a decoded token carries
TokenSlot(data) ==
  IF "slotTime" \in DOMAIN data THEN data.slotTime ELSE data.timeSlot

\* a token is the decoded triple of generateQRToken (the slot does not take
\* part in any check), or a string atob/JSON.parse rejects
MalformedToken == [sessionId |-> 0, secret |-> 0]
Tokens == {MalformedToken} \cup [sessionId : 1..MaxSessions, secret : 1..MaxSecret]

VARIABLES
  now,          \* the wall clock, in seconds
  sessions,     \* the sessions table: a row's id is its index
  attendance,   \* the attendance table: a row's id is its index
  enrollments,  \* the enrollments table: a set of <<class, student>>
  cs,           \* createSession calls in flight, by caller
  ex,           \* extendSession calls in flight, by caller
  ack,          \* acknowledgeScan calls in flight, by student
  sub,          \* submit-attendance calls in flight, by student; status0 of
                \* a call is the status of the student's row when it began
  photos,       \* the attendance-photos bucket: a set of <<student, session>>
  last,         \* the handler step taken last and what it returned
  sw,           \* send-absence-notifications runs in flight, by trigger
  od,           \* the send-all-absence-notifications run in flight
  notices,      \* the absence e-mails handed to the mail service
  view,         \* the teacher's session view: its session, the instant its
                \* countdown reaches 0, and its isExtended flag
  dc            \* the admin's deleteClass call: its position, and whether it
                \* has deleted the enrollments of the class

vars == <<now, sessions, attendance, enrollments, cs, ex, ack, sub, photos, last,
          sw, od, notices, view, dc>>

CsCallers == {"k1", "k2"}
ExCallers == {"e1", "e2"}

SessionIds == 1..Len(sessions)
AttendanceIds == 1..Len(attendance)

\* deleteClass has not been called
NoDelete == [pc |-> "idle", removed |-> FALSE]

\* the classes table holds the one class until deleteClass deletes its row
ClassExists(classId) == classId \in Classes /\ dc.pc # "deleted"

\* ------------------------------------------------------------ helpers
DayOf(t) == t \div DayLen
TodayStart(t) == DayOf(t) * DayLen
TodayEnd(t) == (DayOf(t) + 1) * DayLen

\* the lookup with .gt in place of .gte: a session started at midnight is missed
SameDaySessionsStrict(classId, teacherId, t) ==
  {i \in SessionIds :
      /\ sessions[i].class_id = classId
      /\ sessions[i].teacher_id = teacherId
      /\ sessions[i].start_time > TodayStart(t)
      /\ sessions[i].start_time < TodayEnd(t)}

\* .eq('class_id', classId).eq('teacher_id', teacherId)
\* .gte('start_time', todayStart).lt('start_time', todayEnd)
SameDaySessions(classId, teacherId, t) ==
  {i \in SessionIds :
      /\ sessions[i].class_id = classId
      /\ sessions[i].teacher_id = teacherId
      /\ sessions[i].start_time >= TodayStart(t)
      /\ sessions[i].start_time < TodayEnd(t)}

\* .maybeSingle(): the row when exactly one matches; no row, or an error that
\* the caller drops (data is null), otherwise.  0 stands for null.
MaybeSingle(ids) == IF Cardinality(ids) = 1 THEN CHOOSE i \in ids : TRUE ELSE 0

\* status active and the clock inside the window
IsLive(s, t) == s.status = "active" /\ t <= s.end_time

\* rows of the attendance table for a (session, student) pair
RowsOf(sid, st) ==
  {i \in AttendanceIds : attendance[i].session_id = sid /\ attendance[i].student_id = st}

Enrolled(classId, st) == <<classId, st>> \in enrollments

\* the status of the student's row for the session, "none" without a row
RowStatus(sid, st) ==
  IF RowsOf(sid, st) = {} THEN "none"
  ELSE attendance[CHOOSE i \in RowsOf(sid, st) : TRUE].status

NoCall == [pc |-> "idle"]

\* the triggers of send-absence-notifications: the cron job and the button of
\* the teacher's session view
SwRunners == {"cron", "view"}

\* the session view before it has a session
NoView == [sid |-> 0, deadline |-> 0, isExtended |-> FALSE]

\* no run in flight, after n runs
NoRun(n) == [pc |-> "idle", run |-> n, todo |-> <<>>, enrolled |-> {}]
Step(op, who, sid, out) == [op |-> op, who |-> who, sid |-> sid, out |-> out]

Init ==
  /\ now = 0
  /\ sessions = <<>>
  /\ attendance = <<>>
  /\ enrollments = {<<"c1", "s1">>}
  /\ cs = [k \in CsCallers |-> NoCall]
  /\ ex = [k \in ExCallers |-> NoCall]
  /\ ack = [s \in Students |-> NoCall]
  /\ sub = [s \in Students |-> NoCall]
  /\ photos = {}
  /\ last = Step("init", "none", 0, "none")
  /\ sw = [r \in SwRunners |-> NoRun(0)]
  /\ od = NoRun(0)
  /\ notices = {}
  /\ view = NoView
  /\ dc = NoDelete

\* ---------------------------------------------------------------- clock
Tick ==
  /\ (now - TodayStart(now)) + TickStep <= MaxOffset
  /\ now' = now + TickStep
  /\ UNCHANGED <<sessions, attendance, enrollments, cs, ex, ack, sub, last, photos, sw, od, notices, view, dc>>

NextDay ==
  /\ DayOf(now) < MaxDay
  /\ now' = TodayEnd(now)
  /\ UNCHANGED <<sessions, attendance, enrollments, cs, ex, ack, sub, last, photos, sw, od, notices, view, dc>>

\* ------------------------------------------------------- createSession
StudentOrder == <<"s1", "s2">>

\* a session's qr_secret values are numbered in the order they are generated
FreshSecret(row) == row.qr_secret + 1

\* the lookup of today's session for the class (first await)
CsLookup(k, classId, teacherId) ==
  /\ cs[k].pc = "idle"
  /\ cs' = [cs EXCEPT ![k] =
        [pc |-> "looked", classId |-> classId, teacherId |-> teacherId,
         found |-> MaybeSingle(SameDaySessions(classId, teacherId, now))]]
  /\ UNCHANGED <<now, sessions, attendance, enrollments, ex, ack, sub, last, photos, sw, od, notices, view, dc>>

\* a reactivation that starts the session over: the extension and the
\* notification mark are cleared too
ReactivatedRowResets(row) ==
  [row EXCEPT !.status = "active",
              !.end_time = now + SessionWindow,
              !.qr_secret = FreshSecret(row),
              !.extended = FALSE,
              !.notifications_sent = FALSE]

\* the fields the reactivation update writes
ReactivatedRow(row) ==
  [row EXCEPT !.status = "active",
              !.end_time = now + SessionWindow,
              !.qr_secret = FreshSecret(row)]

\* existingSession found: update status, end_time and qr_secret of that row
CsReactivate(k) ==
  /\ cs[k].pc = "looked"
  /\ cs[k].found # 0
  /\ sessions[cs[k].found].qr_secret < MaxSecret
  /\ sessions' = [sessions EXCEPT ![cs[k].found] = ReactivatedRow(@)]
  /\ cs' = [cs EXCEPT ![k] = NoCall]
  /\ last' = Step("createSession", k, cs[k].found, "reactivated")
  /\ UNCHANGED <<now, attendance, enrollments, ex, ack, sub, photos, sw, od, notices, view, dc>>

NewSessionRow(classId, teacherId) ==
  [class_id |-> classId, teacher_id |-> teacherId,
   start_time |-> now, end_time |-> now + SessionWindow,
   extended |-> FALSE, qr_secret |-> 1, status |-> "active",
   notifications_sent |-> FALSE]

\* no existingSession: insert a new row
CsInsert(k) ==
  /\ cs[k].pc = "looked"
  /\ cs[k].found = 0
  /\ Len(sessions) < MaxSessions
  /\ IF ClassExists(cs[k].classId)
       THEN /\ sessions' = Append(sessions,
                                  NewSessionRow(cs[k].classId, cs[k].teacherId))
            /\ cs' = [cs EXCEPT ![k] =
                       [pc |-> "inserted", classId |-> cs[k].classId,
                        teacherId |-> cs[k].teacherId, found |-> Len(sessions) + 1]]
            /\ UNCHANGED last
       ELSE \* class_id references classes(id): the insert fails, the error is thrown
            /\ cs' = [cs EXCEPT ![k] = NoCall]
            /\ last' = Step("createSession", k, 0, "error")
            /\ UNCHANGED sessions
  /\ UNCHANGED <<now, attendance, enrollments, ack, ex, sub, photos, sw, od, notices, view, dc>>

AbsentRow(sid, st) ==
  [session_id |-> sid, student_id |-> st, status |-> "absent",
   checkin_time |-> -1, liveness |-> "null", photo_url |-> "null",
   review_reason |-> "null"]

\* the bulk insert that loses the last enrolled student
AbsentRowsButLast(sid, sts) ==
  [i \in 1..(Len(sts) - 1) |->
      [session_id |-> sid, student_id |-> sts[i], status |-> "absent",
       checkin_time |-> -1, liveness |-> "null", photo_url |-> "null",
       review_reason |-> "null"]]

RECURSIVE AbsentRows(_, _)
AbsentRows(sid, sts) ==
  IF sts = <<>> THEN <<>>
  ELSE <<AbsentRow(sid, Head(sts))>> \o AbsentRows(sid, Tail(sts))

\* the enrolled students, then one insert of an absent row for each; the
\* statement inserts all rows or (on a unique violation, dropped) none
CsPopulate(k) ==
  /\ cs[k].pc = "inserted"
  /\ LET sid == cs[k].found
         sts == SelectSeq(StudentOrder, LAMBDA st : Enrolled(cs[k].classId, st))
         clash == \E i \in 1..Len(sts) : RowsOf(sid, sts[i]) # {}
     IN /\ attendance' = IF clash THEN attendance
                         ELSE attendance \o AbsentRows(sid, sts)
        /\ last' = Step("createSession", k, sid, "created")
  /\ cs' = [cs EXCEPT ![k] = NoCall]
  /\ UNCHANGED <<now, sessions, enrollments, ex, ack, sub, photos, sw, od, notices, view, dc>>

\* ------------------------------------------------------- extendSession
\* select end_time, extended; throw when there is no row or it is extended
ExRead(k, sid) ==
  /\ ex[k].pc = "idle"
  /\ IF sid \in SessionIds /\ ~sessions[sid].extended
       THEN /\ ex' = [ex EXCEPT ![k] =
                  [pc |-> "read", sid |-> sid, end_time |-> sessions[sid].end_time]]
            /\ UNCHANGED last
       ELSE /\ last' = Step("extendSession", k, sid, "CannotExtend")
            /\ UNCHANGED ex
  /\ UNCHANGED <<now, sessions, attendance, enrollments, cs, ack, sub, photos, sw, od, notices, view, dc>>

\* update end_time = the end_time read + 30 s, extended = true
ExWrite(k) ==
  /\ ex[k].pc = "read"
  /\ sessions' = [sessions EXCEPT ![ex[k].sid] =
        [@ EXCEPT !.end_time = ex[k].end_time + ExtendDelta, !.extended = TRUE]]
  /\ ex' = [ex EXCEPT ![k] = NoCall]
  /\ last' = Step("extendSession", k, ex[k].sid, "ok")
  /\ UNCHANGED <<now, attendance, enrollments, cs, ack, sub, photos, sw, od, notices, view, dc>>

\* ---------------------------------------------------------- endSession
EndedRow(row) == [row EXCEPT !.status = "ended", !.end_time = now]

\* one update by id; .single() is an error when no row matches
EndSession(sid) ==
  /\ IF sid \in SessionIds
       THEN /\ sessions' = [sessions EXCEPT ![sid] = EndedRow(@)]
            /\ last' = Step("endSession", "t1", sid, "ok")
       ELSE /\ last' = Step("endSession", "t1", sid, "error")
            /\ UNCHANGED sessions
  /\ UNCHANGED <<now, attendance, enrollments, cs, ex, ack, sub, photos, sw, od, notices, view, dc>>

\* ------------------------------------------- the attendance table's rules
RoleOf(uid) == IF uid \in Teachers THEN "teacher" ELSE "student"

\* the trigger with the student branch relaxed the way the row-level policy
\* is: present is let through when liveness is true and the session active
TriggerAllowsPresent(uid, new) ==
  IF uid = new.student_id
    THEN /\ sessions[new.session_id].status = "active"
         /\ \/ new.status = "pending"
            \/ new.status = "present" /\ new.liveness = "true"
    ELSE \/ uid = sessions[new.session_id].teacher_id
         \/ RoleOf(uid) = "teacher"
         \/ RoleOf(uid) = "admin"

\* trigger validate_attendance_update_improved, BEFORE INSERT OR UPDATE, on
\* the NEW row: TRUE when it raises no exception
TriggerAllows(uid, new) ==
  IF uid = new.student_id
    THEN new.status = "pending" /\ sessions[new.session_id].status = "active"
    ELSE \/ uid = sessions[new.session_id].teacher_id
         \/ RoleOf(uid) = "teacher"
         \/ RoleOf(uid) = "admin"

\* policy "Students can update own attendance (restricted)", WITH CHECK
StudentUpdateCheck(uid, new) ==
  /\ uid = new.student_id
  /\ \/ new.status = "pending"
     \/ /\ new.status = "present"
        /\ new.liveness = "true"
        /\ sessions[new.session_id].status = "active"

\* policy "Teachers can manage session attendance", USING and WITH CHECK
TeacherManages(uid, row) == sessions[row.session_id].teacher_id = uid

\* an UPDATE of row `old` to `new` by uid goes through
DbUpdateOk(uid, old, new) ==
  /\ (uid = old.student_id \/ TeacherManages(uid, old))
  /\ (StudentUpdateCheck(uid, new) \/ TeacherManages(uid, new))
  /\ TriggerAllows(uid, new)

\* the table without its unique constraint
UniqueOkDropped(new) == TRUE

\* UNIQUE(session_id, student_id)
UniqueOk(new) == RowsOf(new.session_id, new.student_id) = {}

\* an INSERT of `new` by uid goes through: policy "Students can insert their
\* attendance" or the teacher's policy, the trigger, the unique constraint
DbInsertOk(uid, new) ==
  /\ (uid = new.student_id \/ TeacherManages(uid, new))
  /\ TriggerAllows(uid, new)
  /\ UniqueOk(new)

\* a policy that lets every student read every session
StudentSeesAnySession(st, sid) == sid \in SessionIds

\* policy "Students can view sessions for their classes"
StudentSeesSession(st, sid) ==
  sid \in SessionIds /\ Enrolled(sessions[sid].class_id, st)

\* ------------------------------------------------------ acknowledgeScan
\* the secret check left out
SecretMatchesAny(tok, row) == TRUE

\* a check that also wants the token's slot to be the current one
SecretAndSlotMatch(tok, row) ==
  tok.secret = row.qr_secret /\ TokenSlot(tok) = now \div ClientSlot

SecretMatches(tok, row) == tok.secret = row.qr_secret

\* decode, the session query (.eq('status', 'active')), the secret and the
\* time check, in the handler's order; "pass" when none throws
AckCheckOutcome(st, tok) ==
  IF tok = MalformedToken THEN "InvalidTokenFormat"
  ELSE IF ~(StudentSeesSession(st, tok.sessionId)
            /\ sessions[tok.sessionId].status = "active")
    THEN "SessionNotFoundOrExpired"
  ELSE IF ~SecretMatches(tok, sessions[tok.sessionId]) THEN "InvalidQRToken"
  ELSE IF now > sessions[tok.sessionId].end_time THEN "SessionHasEnded"
  ELSE "pass"

AckCheck(st, tok) ==
  /\ ack[st].pc = "idle"
  /\ LET out == AckCheckOutcome(st, tok)
     IN IF out = "pass"
          THEN /\ ack' = [ack EXCEPT ![st] =
                     [pc |-> "checked", sid |-> tok.sessionId, t |-> now, hasRow |-> FALSE,
                      status0 |-> RowStatus(tok.sessionId, st)]]
               /\ UNCHANGED last
          ELSE /\ last' = Step("acknowledgeScan", st, tok.sessionId, out)
               /\ UNCHANGED ack
  /\ UNCHANGED <<now, sessions, attendance, enrollments, cs, ex, sub, photos, sw, od, notices, view, dc>>

\* the select without the already-present test
AckSelectNoPresentTest(st) ==
  /\ ack[st].pc = "checked"
  /\ ack' = [ack EXCEPT ![st] = [@ EXCEPT !.pc = "selected",
                                          !.hasRow = (RowsOf(ack[st].sid, st) # {})]]
  /\ UNCHANGED <<now, sessions, attendance, enrollments, cs, ex, sub, photos, last, sw, od, notices, view, dc>>

\* the student's current row: none, already present (throw), or another status
AckSelect(st) ==
  /\ ack[st].pc = "checked"
  /\ LET rows == RowsOf(ack[st].sid, st)
         id == MaybeSingle(rows)
     IN IF Cardinality(rows) > 1
          THEN /\ last' = Step("acknowledgeScan", st, ack[st].sid, "FailedToCheck")
               /\ ack' = [ack EXCEPT ![st] = NoCall]
        ELSE IF id # 0 /\ attendance[id].status = "present"
          THEN /\ last' = Step("acknowledgeScan", st, ack[st].sid, "AlreadyPresent")
               /\ ack' = [ack EXCEPT ![st] = NoCall]
        ELSE /\ ack' = [ack EXCEPT ![st] = [@ EXCEPT !.pc = "selected", !.hasRow = (id # 0)]]
             /\ UNCHANGED last
  /\ UNCHANGED <<now, sessions, attendance, enrollments, cs, ex, sub, photos, sw, od, notices, view, dc>>

PendingRow(sid, st, t) ==
  [session_id |-> sid, student_id |-> st, status |-> "pending",
   checkin_time |-> t, liveness |-> "null", photo_url |-> "null",
   review_reason |-> "null"]

\* the table after UPDATE ... SET f(row) WHERE id \in ids by uid, or the table
\* unchanged when the statement fails
UpdateRows(uid, ids, f(_)) ==
  IF \A i \in ids : DbUpdateOk(uid, attendance[i], f(attendance[i]))
    THEN [i \in AttendanceIds |-> IF i \in ids THEN f(attendance[i]) ELSE attendance[i]]
    ELSE attendance

AckPending(row, t) == [row EXCEPT !.status = "pending", !.checkin_time = t]

\* insert a pending row when none was found, else update the row to pending
AckWrite(st) ==
  /\ ack[st].pc = "selected"
  /\ LET sid == ack[st].sid
         t == ack[st].t
         new == PendingRow(sid, st, t)
         rows == RowsOf(sid, st)
         upd(row) == AckPending(row, t)
         ok == IF ack[st].hasRow
                 THEN rows # {} /\ \A i \in rows : DbUpdateOk(st, attendance[i], upd(attendance[i]))
                 ELSE DbInsertOk(st, new)
     IN /\ attendance' = IF ~ok THEN attendance
                         ELSE IF ack[st].hasRow THEN UpdateRows(st, rows, upd)
                         ELSE Append(attendance, new)
        /\ last' = Step("acknowledgeScan", st, sid, IF ok THEN "ok" ELSE "error")
  /\ ack' = [ack EXCEPT ![st] = NoCall]
  /\ UNCHANGED <<now, sessions, enrollments, cs, ex, sub, photos, sw, od, notices, view, dc>>

\* what the student's check-in page does with the outcome of acknowledgeScan:
\* on to the camera, the "already present" result, or an error toast and home
ScanView(out) ==
  IF out = "ok" THEN "camera"
  ELSE IF out = "AlreadyPresent" THEN "result-present"
  ELSE "home"

\* ---------------------------------------------------- submit-attendance
\* what the request body's liveness may be: the booleans, null (or absent),
\* and the string 'true'
LivenessInputs == {"true", "false", "null", "str:true"}

\* the value the BOOLEAN column takes from the body's liveness
AsBoolean(liveness) == IF liveness = "str:true" THEN "true" ELSE liveness

\* the decision with a truthiness test in place of === true
DecideTruthy(liveness) ==
  IF liveness \in {"true", "str:true"} THEN "present" ELSE "pending"

\* liveness === true ? 'present' : 'pending'
Decide(liveness) == IF liveness = "true" THEN "present" ELSE "pending"

\* the session row (service role), status, time window, token decode and
\* token check, in the handler's order; "pass" when none returns an error
SubCheckOutcome(sid, tok) ==
  IF sid \notin SessionIds THEN "InvalidSession"
  ELSE IF sessions[sid].status # "active" THEN "SessionNotActive"
  ELSE IF now < sessions[sid].start_time \/ now > sessions[sid].end_time
    THEN "NotInTimeWindow"
  ELSE IF tok = MalformedToken THEN "InvalidTokenFormat"
  ELSE IF tok.sessionId # sid \/ ~SecretMatches(tok, sessions[sid]) THEN "InvalidToken"
  ELSE "pass"

SubCheck(st, sid, tok, liveness, photo) ==
  /\ sub[st].pc = "idle"
  /\ LET out == SubCheckOutcome(sid, tok)
     IN IF out = "pass"
          THEN /\ sub' = [sub EXCEPT ![st] =
                     [pc |-> "validated", sid |-> sid, liveness |-> liveness,
                      photo |-> photo, photo_url |-> "null", existing |-> 0,
                      status |-> "none",
                      status0 |-> RowStatus(sid, st)]]
               /\ UNCHANGED last
          ELSE /\ last' = Step("submitAttendance", st, sid, out)
               /\ UNCHANGED sub
  /\ UNCHANGED <<now, sessions, attendance, enrollments, cs, ex, ack, photos, sw, od, notices, view, dc>>

\* a handler that goes on without the enrollment row
EnrollmentNotChecked(st, sid) == TRUE

\* .from('enrollments').select('id').eq('student_id', user.id)
\* .eq('class_id', session.class_id).single() gave a row
EnrollmentFound(st, sid) == Enrolled(sessions[sid].class_id, st)

\* a handler that goes on, without a photo reference, when the store refuses
UploadErrorIgnored(photo, stored) == FALSE

\* if (photoBlob) { upload; if (uploadError) return 500 }
UploadFailed(photo, stored) == photo /\ ~stored

\* the enrollment check, then the photo upload, which the store may refuse,
\* then the decision (attendanceStatus)
SubEnroll(st, stored) ==
  /\ sub[st].pc = "validated"
  /\ LET sid == sub[st].sid
     IN IF ~EnrollmentFound(st, sid)
          THEN /\ last' = Step("submitAttendance", st, sid, "NotEnrolled")
               /\ sub' = [sub EXCEPT ![st] = NoCall]
               /\ UNCHANGED photos
        ELSE IF UploadFailed(sub[st].photo, stored)
          THEN /\ last' = Step("submitAttendance", st, sid, "FailedToUploadPhoto")
               /\ sub' = [sub EXCEPT ![st] = NoCall]
               /\ UNCHANGED photos
        ELSE /\ sub' = [sub EXCEPT ![st] =
                   [@ EXCEPT !.pc = "uploaded",
                             !.photo_url = IF sub[st].photo /\ stored THEN "photo"
                                                                       ELSE "null",
                             !.status = Decide(sub[st].liveness)]]
             /\ photos' = IF sub[st].photo /\ stored THEN photos \cup {<<st, sid>>}
                                                    ELSE photos
             /\ UNCHANGED last
  /\ UNCHANGED <<now, sessions, attendance, enrollments, cs, ex, ack, sw, od, notices, view, dc>>

\* select id of the student's row, .single(): null unless exactly one row
SubSelect(st) ==
  /\ sub[st].pc = "uploaded"
  /\ sub' = [sub EXCEPT ![st] =
        [@ EXCEPT !.pc = "selected", !.existing = MaybeSingle(RowsOf(sub[st].sid, st))]]
  /\ UNCHANGED <<now, sessions, attendance, enrollments, cs, ex, ack, photos, last, sw, od, notices, view, dc>>

SubmittedRow(row, status, t, liveness, photo_url) ==
  [row EXCEPT !.status = status, !.checkin_time = t,
              !.liveness = liveness, !.photo_url = photo_url]

\* update the existing row, or insert one, with the student's own JWT
SubWrite(st) ==
  /\ sub[st].pc = "selected"
  /\ LET sid == sub[st].sid
         status == sub[st].status
         id == sub[st].existing
         upd(row) == SubmittedRow(row, status, now, AsBoolean(sub[st].liveness),
                                  sub[st].photo_url)
         new == upd(PendingRow(sid, st, now))
         ok == IF id # 0 THEN DbUpdateOk(st, attendance[id], upd(attendance[id]))
                         ELSE DbInsertOk(st, new)
     IN /\ attendance' = IF ~ok THEN attendance
                         ELSE IF id # 0 THEN UpdateRows(st, {id}, upd)
                         ELSE Append(attendance, new)
        /\ last' = Step("submitAttendance", st, sid,
                        IF ok THEN status
                        ELSE IF id # 0 THEN "FailedToUpdate" ELSE "FailedToCreate")
  /\ sub' = [sub EXCEPT ![st] = NoCall]
  /\ UNCHANGED <<now, sessions, enrollments, cs, ex, ack, photos, sw, od, notices, view, dc>>

\* ------------------------------------------------ updateAttendanceRecord
Overridden(row, status, reason) ==
  IF reason # "" THEN [row EXCEPT !.status = status, !.review_reason = reason]
                 ELSE [row EXCEPT !.status = status]

\* the teacher's override: one update by id, review_reason only when given
Override(id, status, reason) ==
  /\ LET upd(row) == Overridden(row, status, reason)
         ok == id \in AttendanceIds /\ DbUpdateOk("t1", attendance[id], upd(attendance[id]))
     IN /\ attendance' = IF ok THEN UpdateRows("t1", {id}, upd) ELSE attendance
        /\ last' = Step("updateAttendanceRecord", "t1",
                        IF id \in AttendanceIds THEN attendance[id].session_id ELSE 0,
                        IF ok THEN "ok" ELSE "error")
  /\ UNCHANGED <<now, sessions, enrollments, cs, ex, ack, sub, photos, sw, od, notices, view, dc>>

\* ------------------------------------------------------------ enrollment
\* the admin enrolls a student in a class: an insert into enrollments of the
\* students not enrolled yet
Enroll(classId, st) ==
  /\ ~Enrolled(classId, st)
  /\ IF ClassExists(classId)
       THEN /\ enrollments' = enrollments \cup {<<classId, st>>}
            /\ last' = Step("enroll", st, 0, "ok")
       ELSE \* class_id references classes(id)
            /\ last' = Step("enroll", st, 0, "error")
            /\ UNCHANGED enrollments
  /\ UNCHANGED <<now, sessions, attendance, cs, ex, ack, sub, photos, sw, od, notices, view, dc>>

\* ------------------------------------------------------------ deleteClass
\* no client call and no notification run is between two of its statements
Quiet ==
  /\ \A k \in CsCallers : cs[k].pc = "idle"
  /\ \A k \in ExCallers : ex[k].pc = "idle"
  /\ \A st \in Students : ack[st].pc = "idle" /\ sub[st].pc = "idle"
  /\ \A r \in SwRunners : sw[r].pc = "idle"
  /\ od.pc = "idle"

\* the admin dashboard's deleteClass, first statement: all enrollments of the
\* class are deleted; the statement's error is not looked at
DcEnrollments(classId) ==
  /\ dc.pc = "idle"
  /\ enrollments' = {e \in enrollments : e[1] # classId}
  /\ dc' = [pc |-> "unenrolled", removed |-> TRUE]
  /\ UNCHANGED <<now, sessions, attendance, cs, ex, ack, sub, last, photos, sw, od,
                 notices, view>>

\* second statement: the class row is deleted and with it, by ON DELETE
\* CASCADE, the enrollments and sessions of the class and the attendance of
\* those sessions; when the delete fails the error is shown and the rows stay
DcClass(classId, ok) ==
  /\ dc.pc = "unenrolled"
  /\ IF ok
       THEN /\ dc' = [dc EXCEPT !.pc = "deleted"]
            /\ enrollments' = {e \in enrollments : e[1] # classId}
            /\ sessions' = SelectSeq(sessions, LAMBDA row : row.class_id # classId)
            /\ attendance' = SelectSeq(attendance, LAMBDA row :
                                sessions[row.session_id].class_id # classId)
            /\ last' = Step("deleteClass", "admin", 0, "ok")
       ELSE /\ dc' = [dc EXCEPT !.pc = "idle"]
            /\ last' = Step("deleteClass", "admin", 0, "error")
            /\ UNCHANGED <<sessions, attendance, enrollments>>
  /\ UNCHANGED <<now, cs, ex, ack, sub, photos, sw, od, notices, view>>

\* the rows of the one class go at a moment when no call holds one of their ids
DeleteClass(classId) ==
  \/ DcEnrollments(classId)
  \/ DcClass(classId, FALSE)
  \/ Quiet /\ DcClass(classId, TRUE)

\* ------------------------------------------- send-absence-notifications
\* the session ids among 1..n that satisfy keep, in id order
RECURSIVE SelectIds(_, _)
SelectIds(n, keep) ==
  IF n = 0 THEN <<>>
  ELSE IF n \in keep THEN Append(SelectIds(n - 1, keep), n)
       ELSE SelectIds(n - 1, keep)

\* .from('enrollments').select(...).eq('class_id', session.class_id)
EnrolledStudents(classId) == {st \in Students : Enrolled(classId, st)}

\* .from('attendance').select('student_id').eq('session_id', id) with the
\* status filter of the variant
StudentsWithStatus(sid, statuses) ==
  {st \in Students : RowStatus(sid, st) \in statuses}

\* enrolledStudents.filter(e => !presentStudentIds.includes(e.student_id))
Absentees(enrolled, attended) == enrolled \ attended

\* a fan-out that stops at the first delivery that fails
AttemptedUntilFailure(absentees, failed) ==
  {st \in absentees :
      \A f \in failed \cap absentees :
          \A i, j \in 1..Len(StudentOrder) :
              (StudentOrder[i] = st /\ StudentOrder[j] = f) => i <= j}

\* for (const absentee of absentees) { try { send } catch { log } }: the
\* absentees whose e-mail is handed to the mail service, when the deliveries
\* to failed throw
Attempted(absentees, failed) == absentees

\* one e-mail per absentee attempted; ok tells whether the delivery succeeded
NoticesFor(fn, runner, run, sid, sts, failed) ==
  {[fn |-> fn, runner |-> runner, run |-> run, session |-> sid, student |-> st,
    ok |-> st \notin failed] : st \in sts}

\* .eq('status', 'present')
ScheduledAttended == {"present"}

\* .update({ status: 'ended' }).lte('end_time', now).eq('status', 'active')
ExpiredRow(s, t) ==
  IF s.end_time <= t /\ s.status = "active" THEN [s EXCEPT !.status = "ended"] ELSE s

\* a run begins: the expired active sessions are marked ended
SwExpire(r) ==
  /\ sw[r].pc = "idle"
  /\ sw[r].run < MaxRuns
  /\ sessions' = IF \E i \in SessionIds : ExpiredRow(sessions[i], now) # sessions[i]
                   THEN [i \in SessionIds |-> ExpiredRow(sessions[i], now)]
                   ELSE sessions
  /\ sw' = [sw EXCEPT ![r] = [@ EXCEPT !.pc = "expired", !.run = @ + 1]]
  /\ UNCHANGED <<now, attendance, enrollments, cs, ex, ack, sub, photos, last,
                 od, notices, view, dc>>

\* .lte('end_time', now).gte('end_time', thirtyMinutesAgo)
\* .eq('status', 'ended').eq('notifications_sent', false)
EndedSessions(t) ==
  {i \in SessionIds :
      /\ sessions[i].end_time <= t
      /\ sessions[i].end_time >= t - SweepLookback
      /\ sessions[i].status = "ended"
      /\ sessions[i].notifications_sent = FALSE}

\* the selection of the sessions to process; none ends the run
SwSelect(r) ==
  /\ sw[r].pc = "expired"
  /\ LET todo == SelectIds(Len(sessions), EndedSessions(now))
     IN IF todo = <<>>
        THEN /\ sw' = [sw EXCEPT ![r] = NoRun(sw[r].run)]
             /\ last' = Step("send-absence-notifications", r, 0, "NoSessions")
        ELSE /\ sw' = [sw EXCEPT ![r] = [@ EXCEPT !.pc = "session", !.todo = todo]]
             /\ UNCHANGED last
  /\ UNCHANGED <<now, sessions, attendance, enrollments, cs, ex, ack, sub, photos,
                 od, notices, view, dc>>

\* the enrollments of the class of the session being processed
SwEnrolled(r) ==
  /\ sw[r].pc = "session"
  /\ LET sid == Head(sw[r].todo)
     IN sw' = [sw EXCEPT ![r] = [@ EXCEPT !.pc = "enrolled",
                  !.enrolled = EnrolledStudents(sessions[sid].class_id)]]
  /\ UNCHANGED <<now, sessions, attendance, enrollments, cs, ex, ack, sub, photos,
                 last, od, notices, view, dc>>

\* the attendance read, the absentees and the e-mails to them, of which the
\* deliveries to failed fail
SwNotify(r, failed) ==
  /\ sw[r].pc = "enrolled"
  /\ LET sid == Head(sw[r].todo)
         absentees == Absentees(sw[r].enrolled,
                                StudentsWithStatus(sid, ScheduledAttended))
     IN /\ failed \subseteq absentees
        /\ notices' = notices \cup NoticesFor("scheduled", r, sw[r].run, sid,
                                              Attempted(absentees, failed), failed)
  /\ sw' = [sw EXCEPT ![r] = [@ EXCEPT !.pc = "notified"]]
  /\ UNCHANGED <<now, sessions, attendance, enrollments, cs, ex, ack, sub, photos,
                 last, od, view, dc>>

\* .update({ notifications_sent: true }).eq('id', session.id), then the next
\* session or the response
SwMark(r) ==
  /\ sw[r].pc = "notified"
  /\ LET sid == Head(sw[r].todo)
         rest == Tail(sw[r].todo)
     IN /\ sessions' = [sessions EXCEPT ![sid] = [@ EXCEPT !.notifications_sent = TRUE]]
        /\ IF rest = <<>>
           THEN /\ sw' = [sw EXCEPT ![r] = NoRun(sw[r].run)]
                /\ last' = Step("send-absence-notifications", r, sid, "ok")
           ELSE /\ sw' = [sw EXCEPT ![r] = [@ EXCEPT !.pc = "session", !.todo = rest,
                                                     !.enrolled = {}]]
                /\ UNCHANGED last
  /\ UNCHANGED <<now, attendance, enrollments, cs, ex, ack, sub, photos, od, notices, view, dc>>

\* --------------------------------------- send-all-absence-notifications
\* .lte('end_time', now).gte('end_time', twentyFourHoursAgo); the filter on
\* the embedded class leaves the session rows alone
RecentSessions(t) ==
  {i \in SessionIds :
      /\ sessions[i].end_time <= t
      /\ sessions[i].end_time >= t - AllLookback}

\* .in('status', ['present', 'pending'])
OnDemandAttended == {"present", "pending"}

\* processNotifications begins with the selection; none ends the run
OdSelect ==
  /\ od.pc = "idle"
  /\ od.run < MaxRuns
  /\ LET todo == SelectIds(Len(sessions), RecentSessions(now))
     IN IF todo = <<>>
        THEN /\ od' = NoRun(od.run + 1)
             /\ last' = Step("send-all-absence-notifications", "t1", 0, "NoSessions")
        ELSE /\ od' = [od EXCEPT !.pc = "session", !.run = @ + 1, !.todo = todo]
             /\ UNCHANGED last
  /\ UNCHANGED <<now, sessions, attendance, enrollments, cs, ex, ack, sub, photos,
                 sw, notices, view, dc>>

\* the enrollments of the class of the session being processed
OdEnrolled ==
  /\ od.pc = "session"
  /\ LET sid == Head(od.todo)
     IN od' = [od EXCEPT !.pc = "enrolled",
                         !.enrolled = EnrolledStudents(sessions[sid].class_id)]
  /\ UNCHANGED <<now, sessions, attendance, enrollments, cs, ex, ack, sub, photos,
                 last, sw, notices, view, dc>>

\* the attendance read, the absentees and the e-mails to them, of which the
\* deliveries to failed fail, then the next session or the end of the run
OdNotify(failed) ==
  /\ od.pc = "enrolled"
  /\ LET sid == Head(od.todo)
         rest == Tail(od.todo)
         absentees == Absentees(od.enrolled, StudentsWithStatus(sid, OnDemandAttended))
     IN /\ failed \subseteq absentees
        /\ notices' = notices \cup NoticesFor("on-demand", "t1", od.run, sid,
                                              Attempted(absentees, failed), failed)
        /\ IF rest = <<>>
           THEN /\ od' = NoRun(od.run)
                /\ last' = Step("send-all-absence-notifications", "t1", sid, "ok")
           ELSE /\ od' = [od EXCEPT !.pc = "session", !.todo = rest, !.enrolled = {}]
                /\ UNCHANGED last
  /\ UNCHANGED <<now, sessions, attendance, enrollments, cs, ex, ack, sub, photos, sw,
                 view, dc>>

\* ------------------------------------------------------------ QR tokens
\* a mint and the token it returned
MintStep(op, sid, t, token) ==
  [op |-> op, who |-> "t1", sid |-> sid, out |-> token, at |-> t]

\* the teacher's view mints the token on display, offset seconds after the
\* clock's value
MintClient(sid, offset) ==
  /\ sid \in SessionIds
  /\ last' = MintStep("generateQRToken", sid, now + offset,
                      generateQRToken(sid, sessions[sid].qr_secret, now + offset))
  /\ UNCHANGED <<now, sessions, attendance, enrollments, cs, ex, ack, sub, photos,
                 sw, od, notices, view, dc>>

\* the secure-qr-token function, called by the teacher of the session
MintServer(sid, offset) ==
  /\ last' = IF sid \in SessionIds /\ sessions[sid].teacher_id = "t1"
               THEN MintStep("secure-qr-token", sid, now + offset,
                             SecureQrToken(sid, sessions[sid].qr_secret, now + offset))
               ELSE Step("secure-qr-token", "t1", sid, "SessionNotFound")
  /\ UNCHANGED <<now, sessions, attendance, enrollments, cs, ex, ack, sub, photos,
                 sw, od, notices, view, dc>>

\* ------------------------------------------------- teacher session view
\* d seconds pass
Elapse(d) ==
  /\ (now - TodayStart(now)) + d <= MaxOffset
  /\ now' = now + d
  /\ UNCHANGED <<sessions, attendance, enrollments, cs, ex, ack, sub, last, photos,
                 sw, od, notices, view, dc>>

\* session.remainingTime: the seconds left on the countdown, which stops at 0
RemainingTime ==
  IF view.sid = 0 \/ view.deadline <= now THEN 0 ELSE view.deadline - now

\* initializeSession, after createSession has returned the row of sid:
\* remainingTime = max(0, floor(end_time - now)), isExtended as mounted
ViewInit(k, sid) ==
  /\ last.op = "createSession" /\ last.who = k /\ last.sid = sid
  /\ cs[k].pc = "idle"
  /\ sid \in SessionIds
  /\ view' = [sid |-> sid,
              deadline |-> IF sessions[sid].end_time > now THEN sessions[sid].end_time
                                                           ELSE now,
              isExtended |-> FALSE]
  /\ UNCHANGED <<now, sessions, attendance, enrollments, cs, ex, ack, sub, last, photos,
                 sw, od, notices, dc>>

\* the view's 'Extend +30s' button, shown while the countdown runs and
\* isExtended is false: remainingTime + 30 and the flag, in the view only
ViewExtend ==
  /\ RemainingTime > 0
  /\ ~view.isExtended
  /\ view' = [view EXCEPT !.deadline = @ + ExtendDelta, !.isExtended = TRUE]
  /\ UNCHANGED <<now, sessions, attendance, enrollments, cs, ex, ack, sub, last, photos,
                 sw, od, notices, dc>>

\* the countdown has reached 0: endSessionAPI(newSession.id)
ViewAutoEnd ==
  /\ view.sid # 0
  /\ RemainingTime = 0
  /\ EndSession(view.sid)

\* the token on display: the session of the view and the secret of its row
DisplayedToken == [sessionId |-> view.sid, secret |-> sessions[view.sid].qr_secret]

\* ------------------------------------------------------- specifications
Clock == Tick \/ NextDay

CreateSession(callers) ==
  \E k \in callers :
    \/ \E c \in Classes, t \in Teachers : CsLookup(k, c, t)
    \/ CsReactivate(k)
    \/ CsInsert(k)
    \/ CsPopulate(k)

ExtendSession(callers) ==
  \E k \in callers :
    \/ \E sid \in 1..MaxSessions : ExRead(k, sid)
    \/ ExWrite(k)

AcknowledgeScan(sts, toks) ==
  \E st \in sts :
    \/ \E tok \in toks : AckCheck(st, tok)
    \/ AckSelect(st)
    \/ AckWrite(st)

\* the edge function called with any sessionId and token
SubmitFunction(sts, photoGiven) ==
  \E st \in sts :
    \/ \E sid \in 1..MaxSessions, tok \in Tokens, l \in {"true", "false"}, p \in photoGiven :
          SubCheck(st, sid, tok, l, p)
    \/ \E stored \in BOOLEAN : SubEnroll(st, stored)
    \/ SubSelect(st)
    \/ SubWrite(st)

\* the same, with the body's liveness drawn from ls
SubmitWith(sts, toks, ls) ==
  \E st \in sts :
    \/ \E tok \in toks \ {MalformedToken}, l \in ls :
          SubCheck(st, tok.sessionId, tok, l, FALSE)
    \/ \E stored \in BOOLEAN : SubEnroll(st, stored)
    \/ SubSelect(st)
    \/ SubWrite(st)

\* send-absence-notifications, triggered by the runners rs, with every
\* e-mail delivered
ScheduledSweep(rs) ==
  \E r \in rs : SwExpire(r) \/ SwSelect(r) \/ SwEnrolled(r) \/ SwNotify(r, {}) \/ SwMark(r)

\* the same, where the deliveries to one of the sets fails fail
ScheduledSweepFailing(rs, fails) ==
  \E r \in rs :
    \/ SwExpire(r)
    \/ SwSelect(r)
    \/ SwEnrolled(r)
    \/ \E failed \in fails : SwNotify(r, failed)
    \/ SwMark(r)

\* send-all-absence-notifications, triggered from the teacher's dashboard,
\* with every e-mail delivered
OnDemandSweep == OdSelect \/ OdEnrolled \/ OdNotify({})

\* the same, where the deliveries to one of the sets fails fail
OnDemandSweepFailing(fails) ==
  \/ OdSelect
  \/ OdEnrolled
  \/ \E failed \in fails : OdNotify(failed)

\* the edge function called through the client's submitAttendance, which
\* takes the sessionId from the token it parses
SubmitAttendance(sts, toks, photoGiven) ==
  \E st \in sts :
    \/ \E tok \in toks \ {MalformedToken}, l \in {"true", "false"}, p \in photoGiven :
          SubCheck(st, tok.sessionId, tok, l, p)
    \/ \E stored \in BOOLEAN : SubEnroll(st, stored)
    \/ SubSelect(st)
    \/ SubWrite(st)

Next ==
  \/ Clock
  \/ CreateSession(CsCallers)
  \/ ExtendSession(ExCallers)
  \/ \E sid \in 1..MaxSessions : EndSession(sid)
  \/ AcknowledgeScan(Students, Tokens)
  \/ SubmitFunction(Students, BOOLEAN)
  \/ \E id \in 1..(MaxSessions * 2), status \in Statuses, reason \in {"", "r1"} :
        Override(id, status, reason)
  \/ \E c \in Classes, st \in Students : Enroll(c, st)
  \/ ScheduledSweepFailing(SwRunners, SUBSET Students)
  \/ OnDemandSweepFailing(SUBSET Students)
  \/ \E sid \in 1..MaxSessions, offset \in 0..MaxMintOffset :
        MintClient(sid, offset) \/ MintServer(sid, offset)
  \/ Elapse(ViewStep)
  \/ \E k \in CsCallers, sid \in 1..MaxSessions : ViewInit(k, sid)
  \/ ViewExtend
  \/ ViewAutoEnd
  \/ \E c \in Classes : DeleteClass(c)

Spec == Init /\ [][Next]_vars

\* A teacher who, day after day, starts attendance one call at a time, ends
\* the day's running session and marks students present.
NextSeq ==
  \/ Clock
  \/ CreateSession({"k1"})
  \/ \E sid \in SessionIds :
        /\ sessions[sid].status = "active"
        /\ DayOf(sessions[sid].start_time) = DayOf(now)
        /\ EndSession(sid)
  \/ \E id \in 1..MaxSessions : Override(id, "present", "r1")

SpecSeq == Init /\ [][NextSeq]_vars

\* Two createSession calls that may overlap (a double click), over two days.
NextRace ==
  \/ Clock
  \/ CreateSession(CsCallers)

SpecRace == Init /\ [][NextRace]_vars

\* One session a day that is started, extended by two callers that may
\* overlap, and ended.
NextExtend ==
  \/ Tick
  \/ CreateSession({"k1"})
  \/ ExtendSession(ExCallers)
  \/ \E sid \in 1..MaxSessions : EndSession(sid)

SpecExtend == Init /\ [][NextExtend]_vars

\* The check-in of the enrolled student s1 against today's session, which the
\* teacher starts, restarts and ends, and whose record the teacher may mark
\* present; s2, who is not enrolled, scans too. The tokens presented are the
\* malformed one, those of the day's session (the first row) and those of a
\* session row that does not exist.
CheckinTokens == {tok \in Tokens : tok.sessionId <= 2}

NextCheckin ==
  \/ Tick
  \/ CreateSession({"k1"})
  \/ EndSession(1)
  \/ AcknowledgeScan(Students, CheckinTokens)
  \/ SubmitAttendance({"s1"}, CheckinTokens, {FALSE})
  \/ Override(1, "present", "")

SpecCheckin == Init /\ [][NextCheckin]_vars

\* the teacher view mints a session's tokens from the row createSession
\* returns: no token of a new session is on display while the call that
\* inserted it has not returned
QrShown == \A k \in CsCallers : cs[k].pc # "inserted"

\* The student s2 is enrolled in the class at some moment, before or after
\* the teacher starts (or restarts) the day's session, and checks in with
\* what the teacher view shows: the scan and the submission may overlap.
NextLate ==
  \/ Tick
  \/ CreateSession({"k1"})
  \/ Enroll("c1", "s2")
  \/ QrShown /\ AcknowledgeScan({"s2"}, CheckinTokens)
  \/ QrShown /\ SubmitAttendance({"s2"}, CheckinTokens, {FALSE})

SpecLate == Init /\ [][NextLate]_vars

\* The day's session, started, restarted and ended by the teacher, who marks
\* the record of s1 pending or present, while s2 is enrolled late and each
\* notification function runs: the scheduled one from the cron job, the
\* other one from the dashboard.
NextAbsent ==
  \/ Tick
  \/ CreateSession({"k1"})
  \/ QrShown /\ EndSession(1)
  \/ Enroll("c1", "s2")
  \/ \E status \in {"pending", "present"} : Override(1, status, "")
  \/ ScheduledSweep({"cron"})
  \/ OnDemandSweep

SpecAbsent == Init /\ [][NextAbsent]_vars

\* The day's session, started, restarted and ended by the teacher, and the
\* scheduled notification function run by the cron job and from the session
\* view, which may overlap.
NextNotify ==
  \/ Tick
  \/ CreateSession({"k1"})
  \/ QrShown /\ EndSession(1)
  \/ ScheduledSweep(SwRunners)

SpecNotify == Init /\ [][NextNotify]_vars

\* The day's session, started, extended, ended and restarted by the teacher,
\* who marks the record of s1 pending or present, with the cron job's
\* notification runs in between.
NextReact ==
  \/ Tick
  \/ CreateSession({"k1"})
  \/ ExtendSession({"e1"})
  \/ QrShown /\ EndSession(1)
  \/ \E status \in {"pending", "present"} : Override(1, status, "")
  \/ ScheduledSweep({"cron"})

SpecReact == Init /\ [][NextReact]_vars

\* no createSession call is in flight
CsIdle == \A k \in CsCallers : cs[k].pc = "idle"

\* s2 is enrolled before the first session; at the start of the day two
\* callers start the session at once, which may leave several session rows;
\* the sessions expire and, while no start is in flight, both notification
\* functions run; the e-mail to s1 may fail.
NextFanout ==
  \/ Tick
  \/ now = 0 /\ CreateSession(CsCallers)
  \/ sessions = <<>> /\ Enroll("c1", "s2")
  \/ CsIdle /\ ScheduledSweepFailing({"cron"}, {{}, {"s1"}})
  \/ CsIdle /\ OnDemandSweepFailing({{}, {"s1"}})

SpecFanout == Init /\ [][NextFanout]_vars

\* the reasons a reviewer may type: none, or one of two texts
ReviewReasons == {"", "r1", "r2"}

\* The day's session, the scans of s1, and the teacher's edits of the record
\* of s1 to any status, with or without a reason.
NextReview ==
  \/ Tick
  \/ CreateSession({"k1"})
  \/ QrShown /\ AcknowledgeScan({"s1"}, CheckinTokens)
  \/ \E status \in Statuses, reason \in ReviewReasons : Override(1, status, reason)

SpecReview == Init /\ [][NextReview]_vars

\* The day's session and the submissions, with or without a photo that the
\* store may refuse, of s2, whom the admin enrolls at some moment.
NextSubmit ==
  \/ Tick
  \/ CreateSession({"k1"})
  \/ Enroll("c1", "s2")
  \/ QrShown /\ SubmitAttendance({"s2"}, CheckinTokens, BOOLEAN)

SpecSubmit == Init /\ [][NextSubmit]_vars

\* The day's session, started and restarted, and the tokens minted for it by
\* the view and by the server function.
NextMint ==
  \/ Tick
  \/ CreateSession({"k1"})
  \/ \E offset \in 0..MaxMintOffset : QrShown /\ MintClient(1, offset)
  \/ \E sid \in 1..2, offset \in 0..MaxMintOffset : MintServer(sid, offset)

SpecMint == Init /\ [][NextMint]_vars

\* the decoded tokens the view of session 1 has minted since the session's
\* start in a rotation slot before the current one, under any secret the
\* session has had
StaleTokens ==
  {DecodeToken(generateQRToken(1, secret, t)) :
      secret \in {k \in 1..MaxSecret : 1 \in SessionIds /\ k <= sessions[1].qr_secret},
      t \in {u \in TodayStart(now)..now :
                /\ 1 \in SessionIds /\ u >= sessions[1].start_time
                /\ u % TickStep = 0
                /\ u \div ClientSlot < now \div ClientSlot}}

\* The day's session, started and restarted, and the check-in of s1 with
\* tokens minted in earlier rotation slots.
NextStale ==
  \/ Tick
  \/ CreateSession({"k1"})
  \/ QrShown /\ AcknowledgeScan({"s1"}, StaleTokens)
  \/ QrShown /\ SubmitAttendance({"s1"}, StaleTokens, {FALSE})

SpecStale == Init /\ [][NextStale]_vars

\* The teacher's session view on a finer clock: it starts or restarts the
\* day's session, shows the countdown, may extend it once and ends the
\* session when the countdown reaches 0, while s1 scans the token on display.
NextView ==
  \/ Elapse(ViewStep)
  \/ CreateSession({"k1"})
  \/ ViewInit("k1", 1)
  \/ ViewExtend
  \/ ViewAutoEnd
  \/ RemainingTime > 0 /\ AcknowledgeScan({"s1"}, {DisplayedToken})

SpecView == Init /\ [][NextView]_vars

\* The day's session on the finer clock: started and restarted, extended
\* and ended through the API at any moment.
NextExpiry ==
  \/ Elapse(ViewStep)
  \/ CreateSession({"k1"})
  \/ QrShown /\ ExtendSession({"e1"})
  \/ QrShown /\ EndSession(1)

SpecExpiry == Init /\ [][NextExpiry]_vars

\* The day's session of the class in which s1 is enrolled; s2, whom the admin
\* enrolls at some moment, scans and submits what the view shows; the admin
\* deletes the class.
NextRoster ==
  \/ Tick
  \/ CreateSession({"k1"})
  \/ Enroll("c1", "s2")
  \/ QrShown /\ AcknowledgeScan({"s2"}, CheckinTokens)
  \/ QrShown /\ SubmitAttendance({"s2"}, CheckinTokens, {FALSE})
  \/ DeleteClass("c1")

SpecRoster == Init /\ [][NextRoster]_vars

\* Submissions of s1 whose body carries any liveness value, against the
\* day's session, which the teacher starts, restarts and ends.
NextDecide ==
  \/ Tick
  \/ CreateSession({"k1"})
  \/ EndSession(1)
  \/ SubmitWith({"s1"}, CheckinTokens, LivenessInputs)

SpecDecide == Init /\ [][NextDecide]_vars

\* ------------------------------------------------------------- properties
\* a step of a check-in handler running under a student's identity
StudentStep == ack' # ack \/ sub' # sub

\* the sessions of a class and teacher that started on day d
SessionsOfDay(classId, teacherId, d) ==
  {i \in SessionIds :
      /\ sessions[i].class_id = classId
      /\ sessions[i].teacher_id = teacherId
      /\ DayOf(sessions[i].start_time) = d}

OneSessionPerDay ==
  \A c \in Classes, t \in Teachers, d \in 0..MaxDay :
      Cardinality(SessionsOfDay(c, t, d)) <= 1

\* C1 (present is sticky): an acknowledgeScan or submit-attendance call that
\* begins when the student's record for the session is present leaves it
\* present at every step, whatever its token, liveness and photo.
C1_PresentSticky ==
  [][\A st \in Students, sid \in 1..MaxSessions :
        /\ (/\ ack'[st] # ack[st] /\ ack[st].pc # "idle"
            /\ ack[st].sid = sid /\ ack[st].status0 = "present") =>
              RowStatus(sid, st)' = "present"
        /\ (/\ sub'[st] # sub[st] /\ sub[st].pc # "idle"
            /\ sub[st].sid = sid /\ sub[st].status0 = "present") =>
              RowStatus(sid, st)' = "present"]_vars

\* C2 (single session per day): with createSession calls made one after the
\* other, a class has at most one session per teacher and day; a call that
\* finds today's session returns that row's id as a reactivation and inserts
\* nothing, and no createSession step changes an existing attendance row.
C2_SingleSessionPerDay ==
  /\ []OneSessionPerDay
  /\ [][\A k \in CsCallers :
          cs'[k] # cs[k] =>
            /\ \A i \in AttendanceIds : attendance'[i] = attendance[i]
            /\ (cs[k].pc = "looked" /\ cs[k].found # 0) =>
                  /\ last' = Step("createSession", k, cs[k].found, "reactivated")
                  /\ Len(sessions') = Len(sessions)
                  /\ attendance' = attendance
            /\ (cs[k].pc = "idle" /\ SameDaySessions(cs'[k].classId, cs'[k].teacherId, now) # {}) =>
                  cs'[k].found \in SameDaySessions(cs'[k].classId, cs'[k].teacherId, now)]_vars

\* a same-day createSession has reactivated the day's only session while one
\* of its records was no longer absent
C2_Witness ==
  /\ last.op = "createSession" /\ last.out = "reactivated"
  /\ Len(sessions) = 1
  /\ \E i \in AttendanceIds :
        attendance[i].session_id = last.sid /\ attendance[i].status = "present"

\* C3 (atomic start under concurrency): also when createSession calls
\* overlap, a class has at most one session per teacher and day.
C3_AtomicStart ==
  \A c \in Classes, t \in Teachers, d \in 0..MaxDay :
      \A i, j \in SessionsOfDay(c, t, d) : i = j

\* the outcomes that report a wrong secret, and those that report a session
\* that is missing, ended or outside its window
InvalidTokenOutcomes == {"InvalidQRToken", "InvalidToken"}
SessionGoneOutcomes ==
  {"SessionNotFoundOrExpired", "SessionHasEnded",
   "InvalidSession", "SessionNotActive", "NotInTimeWindow"}

\* the token carries a secret, for a session that exists, and the secret is
\* not the session's current one
StaleSecret(tok, sid) ==
  /\ tok # MalformedToken
  /\ sid \in SessionIds
  /\ tok.sessionId = sid
  /\ tok.secret # sessions[sid].qr_secret

\* a step of st's acknowledgeScan (of st's submit-attendance) from idle: the
\* checks, which either end the call with an outcome or let it go on
AckCheckStep(st) ==
  /\ ack[st].pc = "idle"
  /\ \/ ack'[st] # ack[st]
     \/ last' # last /\ last'.op = "acknowledgeScan" /\ last'.who = st

SubCheckStep(st) ==
  /\ sub[st].pc = "idle"
  /\ \/ sub'[st] # sub[st]
     \/ last' # last /\ last'.op = "submitAttendance" /\ last'.who = st

\* the step is the check of a submit-attendance call of st with token tok
SubCheckWith(st, tok) ==
  \E l \in {"true", "false"}, p \in BOOLEAN : SubCheck(st, tok.sessionId, tok, l, p)

\* C4 as stated (token validity is secret-bound): a check-in call whose token
\* carries a secret other than the session's current one ends with the
\* invalid-token outcome and changes no attendance record.
C4_SecretBoundAsStated ==
  [][\A st \in Students :
        /\ AckCheckStep(st) =>
              \A tok \in Tokens :
                  (StaleSecret(tok, tok.sessionId) /\ AckCheck(st, tok)) =>
                      /\ last'.out \in InvalidTokenOutcomes
                      /\ ack' = ack /\ attendance' = attendance
        /\ SubCheckStep(st) =>
              \A tok \in Tokens :
                  (StaleSecret(tok, tok.sessionId) /\ SubCheckWith(st, tok)) =>
                      /\ last'.out \in InvalidTokenOutcomes
                      /\ sub' = sub /\ attendance' = attendance]_vars

\* C4 amended: a check-in call whose token carries a secret other than the
\* session's current one ends at its checks, before any write, and changes no
\* attendance record; its outcome is invalid-token when the session is live
\* and (for acknowledgeScan) the student is enrolled in its class, and
\* otherwise invalid-token or one of the session-gone outcomes.
C4_SecretBound ==
  [][\A st \in Students :
        /\ AckCheckStep(st) =>
              \A tok \in Tokens :
                  (StaleSecret(tok, tok.sessionId) /\ AckCheck(st, tok)) =>
                      /\ ack' = ack /\ attendance' = attendance
                      /\ last'.out \in InvalidTokenOutcomes \cup SessionGoneOutcomes
                      /\ (/\ IsLive(sessions[tok.sessionId], now)
                          /\ Enrolled(sessions[tok.sessionId].class_id, st)) =>
                            last'.out = "InvalidQRToken"
        /\ SubCheckStep(st) =>
              \A tok \in Tokens :
                  (StaleSecret(tok, tok.sessionId) /\ SubCheckWith(st, tok)) =>
                      /\ sub' = sub /\ attendance' = attendance
                      /\ last'.out \in InvalidTokenOutcomes \cup SessionGoneOutcomes
                      /\ IsLive(sessions[tok.sessionId], now) =>
                            last'.out = "InvalidToken"]_vars

\* a token minted before a reactivation has just been refused as invalid by a
\* live session whose secret the reactivation rotated
C4_Witness ==
  /\ last.op \in {"acknowledgeScan", "submitAttendance"}
  /\ last.out \in InvalidTokenOutcomes
  /\ last.sid \in SessionIds
  /\ IsLive(sessions[last.sid], now)
  /\ sessions[last.sid].qr_secret > 1

\* C5 (liveness-of-session gating): acknowledgeScan and submit-attendance
\* create or change an attendance record only while the session exists, is
\* active and now <= end_time; a call whose target session is missing, ended
\* or past its end_time ends with a session-gone outcome and changes nothing.
C5_LiveGating ==
  [][\A st \in Students :
        /\ (ack'[st] # ack[st] /\ ack[st].pc # "idle" /\ attendance' # attendance) =>
              IsLive(sessions[ack[st].sid], now)
        /\ (sub'[st] # sub[st] /\ sub[st].pc # "idle" /\ attendance' # attendance) =>
              IsLive(sessions[sub[st].sid], now)
        /\ AckCheckStep(st) =>
              \A tok \in Tokens \ {MalformedToken} :
                  (/\ ~(tok.sessionId \in SessionIds /\ IsLive(sessions[tok.sessionId], now))
                   /\ AckCheck(st, tok)) =>
                      /\ last'.out \in SessionGoneOutcomes
                      /\ ack' = ack /\ attendance' = attendance
        /\ SubCheckStep(st) =>
              \A tok \in Tokens \ {MalformedToken} :
                  (/\ ~(tok.sessionId \in SessionIds /\ IsLive(sessions[tok.sessionId], now))
                   /\ SubCheckWith(st, tok)) =>
                      /\ last'.out \in SessionGoneOutcomes
                      /\ sub' = sub /\ attendance' = attendance]_vars

\* C6 (extension is one-shot): an extendSession call succeeds only on a
\* session that is not extended yet, and then extended becomes true and
\* end_time is 30 s past the end_time the call read; so of two calls,
\* overlapping or not, one fails.
C6_ExtendOnce ==
  [][\A k \in ExCallers, sid \in 1..MaxSessions :
        (ex[k].pc = "read" /\ ex[k].sid = sid /\ ex'[k] # ex[k]) =>
          /\ ~sessions[sid].extended
          /\ sessions'[sid].extended
          /\ sessions'[sid].end_time = ex[k].end_time + ExtendDelta]_vars

C8_LivenessYieldsPresent ==
  [][\A st \in Students, sid \in 1..MaxSessions :
        (/\ sub[st].pc = "selected" /\ sub'[st].pc = "idle"
         /\ sub[st].sid = sid /\ sub[st].liveness = "true"
         /\ IsLive(sessions[sid], now)
         /\ Enrolled(sessions[sid].class_id, st)
         /\ RowStatus(sid, st) # "present") =>
            /\ last'.out = "present"
            /\ RowStatus(sid, st)' = "present"
            /\ \A i \in RowsOf(sid, st)' : attendance'[i].liveness = "true"]_vars

\* C9 (present only while live): a step of submit-attendance that writes
\* status present carries liveness true and finds the session live at the
\* moment of the write.
C9_PresentOnlyWhileLive ==
  [][\A st \in Students, sid \in 1..MaxSessions :
        (/\ sub[st].pc = "selected" /\ sub'[st].pc = "idle" /\ sub[st].sid = sid
         /\ attendance' # attendance
         /\ RowStatus(sid, st)' = "present") =>
            sub[st].liveness = "true" /\ IsLive(sessions[sid], now)]_vars

\* the case C9 is about: a submit-attendance call has written present
C9_Case == last.op = "submitAttendance" /\ last.out = "present"

\* C10 (end never moves end_time forward): endSession sets status ended and
\* leaves end_time no later than it was.
C10_EndNeverForward ==
  [][\A sid \in SessionIds :
        EndSession(sid) =>
          /\ sessions'[sid].status = "ended"
          /\ sessions'[sid].end_time <= sessions[sid].end_time]_vars

\* C11 (end is idempotent): endSession on a session whose status is already
\* ended succeeds and leaves every field of the session row as it was.
C11_EndIdempotent ==
  [][\A sid \in SessionIds :
        (sessions[sid].status = "ended" /\ EndSession(sid)) =>
          /\ last'.out = "ok"
          /\ sessions'[sid] = sessions[sid]]_vars

\* at most one attendance row for each (session, student) pair
UniquePair ==
  \A sid \in SessionIds, st \in Students : Cardinality(RowsOf(sid, st)) <= 1

\* C12 (one record per student per session): every state holds at most one
\* attendance row per (session, student); an acknowledgeScan that returns a
\* record leaves the student's single row pending with checkin_time set to
\* the time of the scan, and when it found a row it adds none.
C12_OneRecordPerPair ==
  /\ []UniquePair
  /\ [][\A st \in Students, sid \in 1..MaxSessions :
          (/\ ack[st].pc = "selected" /\ ack[st].sid = sid
           /\ ack'[st] # ack[st] /\ last'.out = "ok") =>
              /\ Cardinality(RowsOf(sid, st)') = 1
              /\ \A i \in RowsOf(sid, st)' :
                    /\ attendance'[i].status = "pending"
                    /\ attendance'[i].checkin_time = ack[st].t
                    /\ attendance'[i].checkin_time >= 0
              /\ ack[st].hasRow => Len(attendance') = Len(attendance)]_vars

\* a second scan of s1 has read the pending row that the first scan left
\* (set at an earlier time, liveness not submitted yet) and is at its write
C12_Witness ==
  /\ ack["s1"].pc = "selected"
  /\ ack["s1"].hasRow
  /\ ack["s1"].status0 = "pending"
  /\ \E i \in AttendanceIds :
        /\ attendance[i].session_id = ack["s1"].sid
        /\ attendance[i].student_id = "s1"
        /\ attendance[i].status = "pending"
        /\ attendance[i].liveness = "null"
        /\ attendance[i].checkin_time >= 0
        /\ attendance[i].checkin_time < ack["s1"].t

\* C13 (benign insert race is absorbed): a check-in call that read no record
\* and whose insert meets the row a parallel check-in call has created in the
\* meantime, on a session that is still active, returns success.
C13_InsertRaceAbsorbed ==
  [][\A st \in Students, sid \in 1..MaxSessions :
        /\ (/\ ack[st].pc = "selected" /\ ack[st].sid = sid /\ ~ack[st].hasRow
            /\ ack'[st] # ack[st]
            /\ sessions[sid].status = "active"
            /\ RowStatus(sid, st) = "pending") =>
              last'.out = "ok"
        /\ (/\ sub[st].pc = "selected" /\ sub[st].sid = sid /\ sub[st].existing = 0
            /\ sub'[st] # sub[st]
            /\ sessions[sid].status = "active"
            /\ RowStatus(sid, st) = "pending"
            /\ sub[st].liveness = "false") =>
              last'.out = "pending"]_vars

\* C14 (no regression under interleaving): when the write of an
\* acknowledgeScan is applied, its "not already present" precondition holds:
\* the student's record is not present at that moment, so no record goes
\* from present to pending through acknowledgeScan.
C14_NoRegression ==
  [][\A st \in Students, sid \in 1..MaxSessions :
        (/\ ack[st].pc = "selected" /\ ack[st].sid = sid
         /\ ack'[st] # ack[st]
         /\ attendance' # attendance) =>
            RowStatus(sid, st) # "present"]_vars

C17_AlreadyPresentNoOp ==
  [][\A st \in Students :
        /\ AckCheckStep(st) =>
              \A tok \in Tokens \ {MalformedToken} :
                  (/\ tok.sessionId \in SessionIds
                   /\ tok.secret = sessions[tok.sessionId].qr_secret
                   /\ IsLive(sessions[tok.sessionId], now)
                   /\ Enrolled(sessions[tok.sessionId].class_id, st)
                   /\ AckCheck(st, tok)) =>
                      ack'[st].pc = "checked"
        /\ \A sid \in 1..MaxSessions :
              (/\ ack[st].pc = "checked" /\ ack[st].sid = sid
               /\ ack'[st] # ack[st]
               /\ RowStatus(sid, st) = "present") =>
                  /\ last' = Step("acknowledgeScan", st, sid, "AlreadyPresent")
                  /\ last'.out \notin InvalidTokenOutcomes \cup SessionGoneOutcomes
                  /\ ScanView(last'.out) = "result-present"
                  /\ ack'[st] = NoCall
                  /\ attendance' = attendance]_vars

\* s1, marked present, has scanned again and been told so
C17_Witness ==
  /\ last = Step("acknowledgeScan", "s1", 1, "AlreadyPresent")
  /\ RowStatus(1, "s1") = "present"
  /\ ack["s1"] = NoCall

NewlyNotified(sid) ==
  {st \in Students :
      \E n \in notices' \ notices : n.session = sid /\ n.student = st}

\* C19 (absentee set): when a run of either notification function fans out
\* for a session, the students it notifies are exactly the enrolled students
\* it read whose record for the session is neither present nor pending.
C19_AbsenteeSet ==
  [][/\ \A r \in SwRunners, sid \in 1..MaxSessions :
          (/\ sw[r].pc = "enrolled" /\ sw'[r].pc = "notified"
           /\ Head(sw[r].todo) = sid) =>
              NewlyNotified(sid) =
                {st \in sw[r].enrolled : RowStatus(sid, st) \notin {"present", "pending"}}
     /\ \A sid \in 1..MaxSessions :
          (/\ od.pc = "enrolled" /\ od' # od
           /\ Head(od.todo) = sid) =>
              NewlyNotified(sid) =
                {st \in od.enrolled : RowStatus(sid, st) \notin {"present", "pending"}}]_vars

\* C20 (exactly once): the notices the scheduled function has emitted for a
\* session all come from one run, and no step turns a session's
\* notifications_sent from true to false.
C20_ExactlyOncePerSession ==
  /\ [](\A n, m \in notices :
          (n.fn = "scheduled" /\ m.fn = "scheduled" /\ n.session = m.session) =>
              (n.runner = m.runner /\ n.run = m.run))
  /\ [][\A sid \in SessionIds :
          sessions[sid].notifications_sent => sessions'[sid].notifications_sent]_vars

\* C16 (reactivation frame): the step of createSession that follows a lookup
\* which found the day's session sets that row's status to active, its
\* end_time to now + 90 and its qr_secret to a new value, leaves the row's
\* other fields, every other session row and the attendance table as they
\* were, and adds no session and no attendance row.
C16_ReactivationFrame ==
  [][\A k \in CsCallers, sid \in 1..MaxSessions :
        (cs[k].pc = "looked" /\ cs[k].found = sid /\ cs'[k] # cs[k]) =>
            /\ sessions'[sid].status = "active"
            /\ sessions'[sid].end_time = now + 90
            /\ sessions'[sid].qr_secret # sessions[sid].qr_secret
            /\ sessions'[sid].start_time = sessions[sid].start_time
            /\ sessions'[sid].extended = sessions[sid].extended
            /\ sessions'[sid].notifications_sent = sessions[sid].notifications_sent
            /\ sessions'[sid].class_id = sessions[sid].class_id
            /\ sessions'[sid].teacher_id = sessions[sid].teacher_id
            /\ Len(sessions') = Len(sessions)
            /\ \A i \in SessionIds : i # sid => sessions'[i] = sessions[i]
            /\ attendance' = attendance]_vars

\* an extended, ended and notified session with a present record has just
\* been reactivated
C16_Witness ==
  /\ last = Step("createSession", "k1", 1, "reactivated")
  /\ sessions[1].status = "active"
  /\ sessions[1].end_time = now + 90
  /\ sessions[1].extended
  /\ sessions[1].notifications_sent
  /\ RowStatus(1, "s1") = "present"

\* C21 (fan-out isolation): whichever deliveries fail, a fan-out step hands
\* an e-mail for every absentee of the session to the mail service and keeps
\* the sessions still to process; the scheduled run then marks the session
\* notifications_sent and goes on to the next session, as the on-demand run
\* does after its fan-out.
C21_FanOutIsolation ==
  [][/\ \A r \in SwRunners, sid \in 1..MaxSessions :
          (sw[r].pc = "enrolled" /\ sw'[r] # sw[r] /\ Head(sw[r].todo) = sid) =>
              /\ NewlyNotified(sid) =
                    {st \in sw[r].enrolled : RowStatus(sid, st) # "present"}
              /\ sw'[r].pc = "notified"
              /\ sw'[r].todo = sw[r].todo
     /\ \A r \in SwRunners, sid \in 1..MaxSessions :
          (sw[r].pc = "notified" /\ sw'[r] # sw[r] /\ Head(sw[r].todo) = sid) =>
              /\ sessions'[sid].notifications_sent
              /\ Len(sw[r].todo) > 1 =>
                    (sw'[r].pc = "session" /\ sw'[r].todo = Tail(sw[r].todo))
     /\ \A sid \in 1..MaxSessions :
          (od.pc = "enrolled" /\ od' # od /\ Head(od.todo) = sid) =>
              /\ NewlyNotified(sid) =
                    {st \in od.enrolled : RowStatus(sid, st) \notin {"present", "pending"}}
              /\ Len(od.todo) > 1 =>
                    (od'.pc = "session" /\ od'.todo = Tail(od.todo))]_vars

\* in one scheduled run the e-mail to s1 about a session failed, the e-mail
\* to s2 about it was sent, the session is marked, and a later session of the
\* same run was notified too
C21_Witness ==
  \E n, m, l \in notices :
      /\ n.fn = "scheduled" /\ n.student = "s1" /\ ~n.ok
      /\ m.fn = "scheduled" /\ m.student = "s2" /\ m.ok
      /\ m.session = n.session /\ m.run = n.run
      /\ l.fn = "scheduled" /\ l.run = n.run /\ l.session > n.session
      /\ sessions[n.session].notifications_sent

\* C22 (override requires a reason): an updateAttendanceRecord call that
\* sets a status other than the one the record holds is rejected and changes
\* nothing when it carries no reason, and when it is accepted the record's
\* review_reason is the reason of that call.
C22_OverrideNeedsReason ==
  [][\A id \in AttendanceIds, status \in Statuses, reason \in ReviewReasons :
        (attendance[id].status # status /\ Override(id, status, reason)) =>
            /\ reason = "" => (last'.out = "error" /\ attendance' = attendance)
            /\ last'.out = "ok" => attendance'[id].review_reason = reason]_vars

\* C23 (enrollment required): the step of a submission that checks the
\* enrollment of a student who is not enrolled in the session's class ends
\* the call with NotEnrolled, stores no photo and leaves the attendance table
\* as it was; so only enrolled students have a submission past that check or
\* a stored photo.
C23_EnrollmentRequired ==
  /\ [](\A st \in Students :
          /\ sub[st].pc \in {"uploaded", "selected"} =>
                <<sessions[sub[st].sid].class_id, st>> \in enrollments
          /\ \A sid \in SessionIds :
                <<st, sid>> \in photos => <<sessions[sid].class_id, st>> \in enrollments)
  /\ [][\A st \in Students, sid \in 1..MaxSessions :
          (/\ sub[st].pc = "validated" /\ sub[st].sid = sid
           /\ sub'[st] # sub[st]
           /\ <<sessions[sid].class_id, st>> \notin enrollments) =>
              /\ last' = Step("submitAttendance", st, sid, "NotEnrolled")
              /\ sub'[st] = NoCall
              /\ photos' = photos
              /\ attendance' = attendance]_vars

\* s2, not enrolled, has just been refused although the session is live and
\* the token's secret is the session's
C23_Witness ==
  /\ last = Step("submitAttendance", "s2", 1, "NotEnrolled")
  /\ <<"c1", "s2">> \notin enrollments
  /\ IsLive(sessions[1], now)
  /\ RowsOf(1, "s2") = {}
  /\ photos = {}

\* C24 (photo failure is fatal): the step of a submission with a photo whose
\* upload the store refuses ends the call with the upload error, stores no
\* photo and leaves the attendance table, hence the student's record, as it
\* was.
C24_PhotoFailureFatal ==
  [][\A st \in Students, sid \in 1..MaxSessions :
        (/\ sub[st].pc = "validated" /\ sub[st].sid = sid /\ sub[st].photo
         /\ <<sessions[sid].class_id, st>> \in enrollments
         /\ SubEnroll(st, FALSE)) =>
            /\ last' = Step("submitAttendance", st, sid, "FailedToUploadPhoto")
            /\ sub'[st] = NoCall
            /\ photos' = photos
            /\ attendance' = attendance]_vars

\* the upload of s2's second submission has just been refused; the record
\* the first submission left is as it was, without a photo
C24_Witness ==
  /\ last = Step("submitAttendance", "s2", 1, "FailedToUploadPhoto")
  /\ RowStatus(1, "s2") = "pending"
  /\ \E i \in RowsOf(1, "s2") :
        attendance[i].photo_url = "null" /\ attendance[i].checkin_time < now
  /\ photos = {}

\* the instants at which a token may be minted in the current state
MintInstants == now..(now + MaxMintOffset)

\* C25 (10-second slot): a token minted for a session by either mint decodes
\* to the session id, the session's secret and the slot floor(seconds / 10),
\* and two mints of one mint function with the same secret give the same
\* token exactly when their instants fall in the same 10-second slot.
C25_TenSecondSlot ==
  \A sid \in SessionIds, t1 \in MintInstants, t2 \in MintInstants :
    LET secret == sessions[sid].qr_secret
        c1 == generateQRToken(sid, secret, t1)
        c2 == generateQRToken(sid, secret, t2)
        s1 == SecureQrToken(sid, secret, t1)
        s2 == SecureQrToken(sid, secret, t2)
    IN /\ \A tok \in {c1, s1} :
            /\ DecodeToken(tok).sessionId = sid
            /\ DecodeToken(tok).secret = secret
            /\ TokenSlot(DecodeToken(tok)) = t1 \div 10
       /\ (c1 = c2) <=> (t1 \div 10 = t2 \div 10)
       /\ (s1 = s2) <=> (t1 \div 10 = t2 \div 10)
       /\ (last.op \in {"generateQRToken", "secure-qr-token"} /\ "at" \in DOMAIN last
           /\ last.sid = sid) =>
              TokenSlot(DecodeToken(last.out)) = last.at \div 10

C27_CountdownMirrorsWindow ==
  /\ []((view.sid # 0 /\ RemainingTime > 0 /\ CsIdle) =>
            IsLive(sessions[view.sid], now))
  /\ [][/\ (RemainingTime > 0 /\ last' # last /\ last'.op = "acknowledgeScan") =>
              last'.out \notin {"SessionHasEnded", "SessionNotFoundOrExpired"}
        /\ (view.sid # 0 /\ ~view.isExtended /\ view'.isExtended) =>
              /\ sessions'[view.sid].end_time = sessions[view.sid].end_time + 30
              /\ sessions'[view.sid].extended]_vars

\* C28 (expiry is final until reactivation): a step after which a session
\* is live that was not live before it is the reactivation step of
\* createSession on that session, and changes the session's secret.
C28_ExpiryFinal ==
  [][\A sid \in SessionIds :
        (~IsLive(sessions[sid], now) /\ IsLive(sessions'[sid], now')) =>
            /\ last' = Step("createSession", last'.who, sid, "reactivated")
            /\ last' # last \/ cs' # cs
            /\ sessions'[sid].qr_secret # sessions[sid].qr_secret]_vars

\* every attendance row is of a student enrolled in the class of its session
AllRecordsEnrolled ==
  \A i \in AttendanceIds :
      /\ attendance[i].session_id \in SessionIds
      /\ Enrolled(sessions[attendance[i].session_id].class_id, attendance[i].student_id)

\* C29 as stated (records belong to enrolled students): in every reachable
\* state every attendance record refers to a student who is enrolled in the
\* class of the record's session.
C29_RecordsOfEnrolledAsStated == AllRecordsEnrolled

\* C29 (records belong to students enrolled when the record was written):
\* as long as deleteClass has deleted no enrollment, every attendance record
\* refers to a student enrolled in the class of its session; and every row a
\* step adds to the attendance table is of a student who is enrolled in that
\* class at the step, unless deleteClass has deleted the enrollments.
C29_RecordsOfEnrolled ==
  /\ [](~dc.removed => AllRecordsEnrolled)
  /\ [][\A i \in (Len(attendance) + 1)..Len(attendance') :
            \/ dc.removed
            \/ /\ attendance'[i].session_id \in SessionIds
               /\ Enrolled(sessions[attendance'[i].session_id].class_id,
                           attendance'[i].student_id)]_vars

\* s2, not enrolled, has scanned the token of the live session and was refused;
\* the table holds the row of s1 only
C29_Witness ==
  /\ ~dc.removed
  /\ ~Enrolled("c1", "s2")
  /\ Len(sessions) = 1
  /\ IsLive(sessions[1], now)
  /\ last = Step("acknowledgeScan", "s2", 1, "SessionNotFoundOrExpired")
  /\ Len(attendance) = 1
  /\ attendance[1].student_id = "s1"

\* C30 (the extended flag is monotone): no step, reactivation included,
\* changes a session's extended flag from true to false, and an extendSession
\* call succeeds only on a session whose flag is false, so that a session
\* whose flag is true has had exactly one successful extendSession call.
C30_ExtendedMonotone ==
  [][\A sid \in SessionIds :
        /\ sessions[sid].extended => sessions'[sid].extended
        /\ \A k \in ExCallers :
              (ex[k].pc = "read" /\ ex[k].sid = sid /\ ex'[k] = NoCall
                 /\ last' = Step("extendSession", k, sid, "ok")) =>
                  ~sessions[sid].extended]_vars

====
